---------------------------- MODULE Spec2Model ----------------------------
(***************************************************************************)
(* Persistence schema and validation shapes of the RSI dashboard           *)
(* (app/models.py).                                                        *)
(*                                                                         *)
(* Values                                                                  *)
(*   str      [s |-> name, len |-> number of characters]                   *)
(*   Decimal  [coef |-> signed integer of all digits, exp |-> digits after *)
(*            the point]; Decimal("70.00") is [coef |-> 7000, exp |-> 2]   *)
(*   Optional None is <<>>, a present value v is <<v>>                     *)
(*   raw input: a function from the field names the caller supplied to     *)
(*            their values; an omitted field is not in its DOMAIN          *)
(*   table    a sequence of rows, the primary key being the index          *)
(***************************************************************************)
EXTENDS Integers, Sequences, FiniteSets, TLC

VARIABLES
    coin_pairs,             \* table coin_pairs
    users,                  \* table users
    rsi_data,               \* table rsi_data
    user_coin_preferences,  \* table user_coin_preferences
    alert_settings,         \* table alert_settings
    rsi_notifications,      \* table rsi_notifications
    dashboard_config,       \* table dashboard_config
    requests,               \* CoinPair creations issued: raw input and outcome
    now,                    \* datetime.utcnow(), a logical clock
    last                    \* the last operation: name, input and outcome

vars == <<coin_pairs, users, rsi_data, user_coin_preferences, alert_settings,
          rsi_notifications, dashboard_config, requests, now, last>>

tables == <<coin_pairs, users, rsi_data, user_coin_preferences, alert_settings,
            rsi_notifications, dashboard_config>>

\* ------------------------------------------------------------- bounds

\* The clock stops here: at most this many rows are written in one run.
MaxTime == 4
\* CoinPair creations issued in one run.
MaxRequests == 3

\* ------------------------------------------------------------- values

None == <<>>
Some(v) == <<v>>
IsNone(o) == o = <<>>

Str(name, n) == [s |-> name, len |-> n]
Dec(c, e) == [coef |-> c, exp |-> e]

Has(raw, f) == f \in DOMAIN raw
\* The supplied value of a field, or the declared default when it is omitted.
Get(raw, f, default) == IF Has(raw, f) THEN raw[f] ELSE default
Restrict(rec, D) == [f \in D |-> rec[f]]

\* The input of a call with no arguments.
NoInput == [f \in {} |-> TRUE]

Abs(n) == IF n < 0 THEN -n ELSE n

RECURSIVE Pow10(_)
Pow10(n) == IF n = 0 THEN 1 ELSE 10 * Pow10(n - 1)

RECURSIVE NumDigits(_)
NumDigits(n) == IF n < 10 THEN 1 ELSE 1 + NumDigits(n \div 10)

\* ------------------------------------------- field constraints (pydantic)

\* Mutant of MaxLengthOk: the limit taken one character too far.
MaxLengthOffByOne(v, n) == v.len <= n + 1

\* Field(max_length=n) on a str.
MaxLengthOk(v, n) == v.len <= n

\* Field(max_digits=p, decimal_places=s) on a Decimal: the digits after the
\* point, all digits, and the digits before the point are each bounded.
DecimalDecimals(d) == d.exp
DecimalDigits(d) ==
    IF NumDigits(Abs(d.coef)) > d.exp THEN NumDigits(Abs(d.coef)) ELSE d.exp
DecimalOk(d, p, s) ==
    /\ DecimalDigits(d) <= p
    /\ DecimalDecimals(d) <= s
    /\ DecimalDigits(d) - DecimalDecimals(d) <= p - s

\* What a caller gets back from an operation.
Outcome(op, raw, result, id) == [op |-> op, raw |-> raw, result |-> result, id |-> id]

\* ------------------------------------------------------- enumerations

NotificationStatus == {"pending", "sent", "dismissed"}
AlertCondition == {"overbought", "oversold", "custom"}

\* --------------------------------------------------------- coin_pairs

SymbolMaxLen == 50
AssetMaxLen == 20
CoinPairIsActiveDefault == TRUE

\* CoinPairCreate(**raw): the validated shape, or a validation error.
CoinPairCreateValid(raw) ==
    /\ {"symbol", "base_asset", "quote_asset"} \subseteq DOMAIN raw
    /\ MaxLengthOk(raw.symbol, SymbolMaxLen)
    /\ MaxLengthOk(raw.base_asset, AssetMaxLen)
    /\ MaxLengthOk(raw.quote_asset, AssetMaxLen)

CoinPairCreate(raw) ==
    [symbol      |-> raw.symbol,
     base_asset  |-> raw.base_asset,
     quote_asset |-> raw.quote_asset,
     is_active   |-> Get(raw, "is_active", CoinPairIsActiveDefault)]

\* CoinPair(**data): the row to store, id given by the table on insert.
CoinPair(data, id, t) ==
    [id          |-> id,
     symbol      |-> data.symbol,
     base_asset  |-> data.base_asset,
     quote_asset |-> data.quote_asset,
     is_active   |-> data.is_active,
     created_at  |-> t,
     updated_at  |-> t]

\* Mutant of CoinPairSymbolUnique: the column declared without unique=True.
SymbolNotUnique(rows, row) == TRUE

\* symbol: Field(unique=True): no other row of the table has the symbol.
CoinPairSymbolUnique(rows, row) ==
    \A i \in DOMAIN rows : i # row.id => rows[i].symbol # row.symbol


\* CoinPairUpdate(**raw): every field Optional with default None.
CoinPairUpdateValid(raw) ==
    /\ Has(raw, "symbol") => MaxLengthOk(raw.symbol, SymbolMaxLen)
    /\ Has(raw, "base_asset") => MaxLengthOk(raw.base_asset, AssetMaxLen)
    /\ Has(raw, "quote_asset") => MaxLengthOk(raw.quote_asset, AssetMaxLen)

\* Mutant of CoinPairUpdate: is_active declared with the create shape's default
\* instead of None.
CoinPairUpdateDefaulting(raw) ==
    [symbol      |-> IF Has(raw, "symbol") THEN Some(raw.symbol) ELSE None,
     base_asset  |-> IF Has(raw, "base_asset") THEN Some(raw.base_asset) ELSE None,
     quote_asset |-> IF Has(raw, "quote_asset") THEN Some(raw.quote_asset) ELSE None,
     is_active   |-> Some(Get(raw, "is_active", CoinPairIsActiveDefault))]

CoinPairUpdate(raw) ==
    [symbol      |-> IF Has(raw, "symbol") THEN Some(raw.symbol) ELSE None,
     base_asset  |-> IF Has(raw, "base_asset") THEN Some(raw.base_asset) ELSE None,
     quote_asset |-> IF Has(raw, "quote_asset") THEN Some(raw.quote_asset) ELSE None,
     is_active   |-> IF Has(raw, "is_active") THEN Some(raw.is_active) ELSE None]

\* A partial entity applied to a stored row: a field that is None is left out,
\* any other field overwrites the stored value (kept wrapped where the stored
\* field is itself Optional).
ApplyUpdate(row, upd, optional) ==
    [f \in DOMAIN row |->
        IF f \in DOMAIN upd /\ ~IsNone(upd[f])
        THEN IF f \in optional THEN upd[f] ELSE upd[f][1]
        ELSE row[f]]

\* ----------------------------------------------- operations on coin_pairs

\* A caller issues a CoinPair creation: the input is validated into the create
\* shape; a valid creation waits for its insert.
IssueCoinPairCreate(raw) ==
    /\ Len(requests) < MaxRequests
    /\ LET status == IF CoinPairCreateValid(raw) THEN "validated" ELSE "validation_error"
       IN  /\ requests' = Append(requests, [raw |-> raw, status |-> status, id |-> 0])
           /\ last' = Outcome("CoinPairCreate", raw, status, 0)
    /\ UNCHANGED <<tables, now>>

\* The storage engine runs the insert of a validated creation: one atomic
\* statement, refused when the unique index on symbol already holds the symbol.
InsertCoinPair(i) ==
    /\ i \in DOMAIN requests
    /\ requests[i].status = "validated"
    /\ now < MaxTime
    /\ LET raw == requests[i].raw
           row == CoinPair(CoinPairCreate(raw), Len(coin_pairs) + 1, now)
       IN  IF CoinPairSymbolUnique(coin_pairs, row)
           THEN /\ coin_pairs' = Append(coin_pairs, row)
                /\ now' = now + 1
                /\ requests' = [requests EXCEPT ![i].status = "ok", ![i].id = row.id]
                /\ last' = Outcome("CoinPairCreate", raw, "ok", row.id)
           ELSE /\ requests' = [requests EXCEPT ![i].status = "unique_violation"]
                /\ last' = Outcome("CoinPairCreate", raw, "unique_violation", 0)
                /\ UNCHANGED <<coin_pairs, now>>
    /\ UNCHANGED <<users, rsi_data, user_coin_preferences, alert_settings,
                   rsi_notifications, dashboard_config>>

\* An update of the stored CoinPair id: the update shape is validated, then
\* applied to the row, and the row is written back under the unique index.
UpdateCoinPair(id, raw) ==
    /\ IF ~CoinPairUpdateValid(raw)
       THEN /\ last' = Outcome("CoinPairUpdate", raw, "validation_error", id)
            /\ UNCHANGED coin_pairs
       ELSE IF id \notin DOMAIN coin_pairs
       THEN /\ last' = Outcome("CoinPairUpdate", raw, "not_found", id)
            /\ UNCHANGED coin_pairs
       ELSE LET row == ApplyUpdate(coin_pairs[id], CoinPairUpdate(raw), {})
            IN  IF CoinPairSymbolUnique(coin_pairs, row)
                THEN /\ coin_pairs' = [coin_pairs EXCEPT ![id] = row]
                     /\ last' = Outcome("CoinPairUpdate", raw, "ok", id)
                ELSE /\ last' = Outcome("CoinPairUpdate", raw, "unique_violation", id)
                     /\ UNCHANGED coin_pairs
    /\ UNCHANGED <<users, rsi_data, user_coin_preferences, alert_settings,
                   rsi_notifications, dashboard_config, requests, now>>

\* A CoinPair creation run to its end with no other operation in between:
\* IssueCoinPairCreate directly followed by InsertCoinPair.
CreateCoinPair(raw) ==
    /\ IF ~CoinPairCreateValid(raw)
       THEN /\ last' = Outcome("CoinPairCreate", raw, "validation_error", 0)
            /\ UNCHANGED <<coin_pairs, now>>
       ELSE LET row == CoinPair(CoinPairCreate(raw), Len(coin_pairs) + 1, now)
            IN  IF CoinPairSymbolUnique(coin_pairs, row)
                THEN /\ now < MaxTime
                     /\ coin_pairs' = Append(coin_pairs, row)
                     /\ now' = now + 1
                     /\ last' = Outcome("CoinPairCreate", raw, "ok", row.id)
                ELSE /\ last' = Outcome("CoinPairCreate", raw, "unique_violation", 0)
                     /\ UNCHANGED <<coin_pairs, now>>
    /\ UNCHANGED <<users, rsi_data, user_coin_preferences, alert_settings,
                   rsi_notifications, dashboard_config, requests>>

\* -------------------------------------------------------------- users

UsernameMaxLen == 50
EmailMaxLen == 255
UserIsActiveDefault == TRUE

UserCreateValid(raw) ==
    /\ {"username", "email"} \subseteq DOMAIN raw
    /\ MaxLengthOk(raw.username, UsernameMaxLen)
    /\ MaxLengthOk(raw.email, EmailMaxLen)

UserCreate(raw) == [username |-> raw.username, email |-> raw.email]

\* User(**data): is_active is not part of the create shape and takes the
\* table's default.
User(data, id, t) ==
    [id         |-> id,
     username   |-> data.username,
     email      |-> data.email,
     is_active  |-> Get(data, "is_active", UserIsActiveDefault),
     created_at |-> t,
     updated_at |-> t]

UserUpdateValid(raw) ==
    /\ Has(raw, "username") => MaxLengthOk(raw.username, UsernameMaxLen)
    /\ Has(raw, "email") => MaxLengthOk(raw.email, EmailMaxLen)

UserUpdate(raw) ==
    [username  |-> IF Has(raw, "username") THEN Some(raw.username) ELSE None,
     email     |-> IF Has(raw, "email") THEN Some(raw.email) ELSE None,
     is_active |-> IF Has(raw, "is_active") THEN Some(raw.is_active) ELSE None]

\* Mutant of UserEmailUnique: the column declared without unique=True.
EmailNotUnique(rows, row) == TRUE

\* username: Field(unique=True) and email: Field(unique=True).
UserUsernameUnique(rows, row) ==
    \A i \in DOMAIN rows : i # row.id => rows[i].username # row.username
UserEmailUnique(rows, row) ==
    \A i \in DOMAIN rows : i # row.id => rows[i].email # row.email

CreateUser(raw) ==
    /\ IF ~UserCreateValid(raw)
       THEN /\ last' = Outcome("UserCreate", raw, "validation_error", 0)
            /\ UNCHANGED <<users, now>>
       ELSE LET row == User(UserCreate(raw), Len(users) + 1, now)
            IN  IF UserUsernameUnique(users, row) /\ UserEmailUnique(users, row)
                THEN /\ now < MaxTime
                     /\ users' = Append(users, row)
                     /\ now' = now + 1
                     /\ last' = Outcome("UserCreate", raw, "ok", row.id)
                ELSE /\ last' = Outcome("UserCreate", raw, "unique_violation", 0)
                     /\ UNCHANGED <<users, now>>
    /\ UNCHANGED <<coin_pairs, rsi_data, user_coin_preferences, alert_settings,
                   rsi_notifications, dashboard_config, requests>>

UpdateUser(id, raw) ==
    /\ IF ~UserUpdateValid(raw)
       THEN /\ last' = Outcome("UserUpdate", raw, "validation_error", id)
            /\ UNCHANGED users
       ELSE IF id \notin DOMAIN users
       THEN /\ last' = Outcome("UserUpdate", raw, "not_found", id)
            /\ UNCHANGED users
       ELSE LET row == ApplyUpdate(users[id], UserUpdate(raw), {})
            IN  IF UserUsernameUnique(users, row) /\ UserEmailUnique(users, row)
                THEN /\ users' = [users EXCEPT ![id] = row]
                     /\ last' = Outcome("UserUpdate", raw, "ok", id)
                ELSE /\ last' = Outcome("UserUpdate", raw, "unique_violation", id)
                     /\ UNCHANGED users
    /\ UNCHANGED <<coin_pairs, rsi_data, user_coin_preferences, alert_settings,
                   rsi_notifications, dashboard_config, requests, now>>

\* ------------------------------------------------- storage constraints

\* Mutant of ForeignKeyOk: the column declared without foreign_key.
NoForeignKey(rows, id) == TRUE

\* A column declared foreign_key="<table>.id": the key names a row of the table.
ForeignKeyOk(rows, id) == id \in DOMAIN rows

\* A Decimal brought to at most s digits after the point, by cutting or by
\* rounding half up, as the storage engine of a NUMERIC(p, s) column does.
Rescale(d, s) ==
    IF d.exp <= s THEN {d}
    ELSE LET k    == Pow10(d.exp - s)
             q    == Abs(d.coef) \div k
             r    == Abs(d.coef) % k
             sign == IF d.coef < 0 THEN -1 ELSE 1
         IN  {Dec(sign * q, s), Dec(sign * (q + (IF 2 * r >= k THEN 1 ELSE 0)), s)}

\* The digits before the point.
WholeDigits(d) ==
    LET w == Abs(d.coef) \div Pow10(d.exp) IN IF w = 0 THEN 0 ELSE NumDigits(w)

\* What a column declared Field(max_digits=p, decimal_places=s) of a table can
\* hold for d: Some(the value as stored), or None for a numeric overflow.
NumericColumn(d, p, s) ==
    { IF WholeDigits(x) <= p - s THEN Some(x) ELSE None : x \in Rescale(d, s) }

\* ------------------------------------------------------------ rsi_data

RSIMaxDigits == 8
RSIDecimalPlaces == 4
PriceMaxDigits == 20
PriceDecimalPlaces == 8
VolumeDefault == Dec(0, 0)
PeriodDefault == 14

\* RSIDataCreate(**raw): the three Decimal fields are declared bare.
RSIDataCreateValid(raw) ==
    {"coin_pair_id", "rsi_value", "price"} \subseteq DOMAIN raw

RSIDataCreate(raw) ==
    [coin_pair_id |-> raw.coin_pair_id,
     rsi_value    |-> raw.rsi_value,
     price        |-> raw.price,
     volume       |-> Get(raw, "volume", VolumeDefault),
     period       |-> Get(raw, "period", PeriodDefault)]

RSIData(data, id, t) ==
    [id           |-> id,
     coin_pair_id |-> data.coin_pair_id,
     rsi_value    |-> data.rsi_value,
     price        |-> data.price,
     volume       |-> data.volume,
     timestamp    |-> t,
     period       |-> data.period]

CreateRSIData(raw) ==
    /\ IF ~RSIDataCreateValid(raw)
       THEN /\ last' = Outcome("RSIDataCreate", raw, "validation_error", 0)
            /\ UNCHANGED <<rsi_data, now>>
       ELSE LET data == RSIDataCreate(raw) IN
            IF ~ForeignKeyOk(coin_pairs, data.coin_pair_id)
            THEN /\ last' = Outcome("RSIDataCreate", raw, "foreign_key_violation", 0)
                 /\ UNCHANGED <<rsi_data, now>>
            ELSE \E rsi \in NumericColumn(data.rsi_value, RSIMaxDigits, RSIDecimalPlaces),
                    price \in NumericColumn(data.price, PriceMaxDigits, PriceDecimalPlaces),
                    volume \in NumericColumn(data.volume, PriceMaxDigits, PriceDecimalPlaces) :
                 IF IsNone(rsi) \/ IsNone(price) \/ IsNone(volume)
                 THEN /\ last' = Outcome("RSIDataCreate", raw, "numeric_overflow", 0)
                      /\ UNCHANGED <<rsi_data, now>>
                 ELSE LET row == RSIData([data EXCEPT !.rsi_value = rsi[1],
                                                      !.price = price[1],
                                                      !.volume = volume[1]],
                                         Len(rsi_data) + 1, now)
                      IN  /\ now < MaxTime
                          /\ rsi_data' = Append(rsi_data, row)
                          /\ now' = now + 1
                          /\ last' = Outcome("RSIDataCreate", raw, "ok", row.id)
    /\ UNCHANGED <<coin_pairs, users, user_coin_preferences, alert_settings,
                   rsi_notifications, dashboard_config, requests>>

\* ----------------------------------------------- user_coin_preferences

IsSelectedDefault == TRUE
DisplayOrderDefault == 0

UserCoinPreferenceCreateValid(raw) ==
    {"user_id", "coin_pair_id"} \subseteq DOMAIN raw

UserCoinPreferenceCreate(raw) ==
    [user_id       |-> raw.user_id,
     coin_pair_id  |-> raw.coin_pair_id,
     is_selected   |-> Get(raw, "is_selected", IsSelectedDefault),
     display_order |-> Get(raw, "display_order", DisplayOrderDefault)]

UserCoinPreference(data, id, t) ==
    [id            |-> id,
     user_id       |-> data.user_id,
     coin_pair_id  |-> data.coin_pair_id,
     is_selected   |-> data.is_selected,
     display_order |-> data.display_order,
     created_at    |-> t,
     updated_at    |-> t]

UserCoinPreferenceUpdate(raw) ==
    [is_selected   |-> IF Has(raw, "is_selected") THEN Some(raw.is_selected) ELSE None,
     display_order |-> IF Has(raw, "display_order") THEN Some(raw.display_order) ELSE None]

CreateUserCoinPreference(raw) ==
    /\ IF ~UserCoinPreferenceCreateValid(raw)
       THEN /\ last' = Outcome("UserCoinPreferenceCreate", raw, "validation_error", 0)
            /\ UNCHANGED <<user_coin_preferences, now>>
       ELSE LET row == UserCoinPreference(UserCoinPreferenceCreate(raw),
                                          Len(user_coin_preferences) + 1, now)
            IN  IF ForeignKeyOk(users, row.user_id) /\ ForeignKeyOk(coin_pairs, row.coin_pair_id)
                THEN /\ now < MaxTime
                     /\ user_coin_preferences' = Append(user_coin_preferences, row)
                     /\ now' = now + 1
                     /\ last' = Outcome("UserCoinPreferenceCreate", raw, "ok", row.id)
                ELSE /\ last' = Outcome("UserCoinPreferenceCreate", raw,
                                        "foreign_key_violation", 0)
                     /\ UNCHANGED <<user_coin_preferences, now>>
    /\ UNCHANGED <<coin_pairs, users, rsi_data, alert_settings, rsi_notifications,
                   dashboard_config, requests>>

UpdateUserCoinPreference(id, raw) ==
    /\ IF id \notin DOMAIN user_coin_preferences
       THEN /\ last' = Outcome("UserCoinPreferenceUpdate", raw, "not_found", id)
            /\ UNCHANGED user_coin_preferences
       ELSE /\ user_coin_preferences' =
                 [user_coin_preferences EXCEPT
                    ![id] = ApplyUpdate(@, UserCoinPreferenceUpdate(raw), {})]
            /\ last' = Outcome("UserCoinPreferenceUpdate", raw, "ok", id)
    /\ UNCHANGED <<coin_pairs, users, rsi_data, alert_settings, rsi_notifications,
                   dashboard_config, requests, now>>

\* ------------------------------------------------------ alert_settings

AlertNameMaxLen == 100
OperatorMaxLen == 10
ThresholdMaxDigits == 5
ThresholdDecimalPlaces == 2
OverboughtDefault == Dec(7000, 2)
OversoldDefault == Dec(3000, 2)
IsEnabledDefault == TRUE
AppliesToAllPairsDefault == TRUE
CoinPairFiltersDefault == <<>>

ThresholdOk(d) == DecimalOk(d, ThresholdMaxDigits, ThresholdDecimalPlaces)

AlertSettingCreateValid(raw) ==
    /\ {"user_id", "name", "condition"} \subseteq DOMAIN raw
    /\ MaxLengthOk(raw.name, AlertNameMaxLen)
    /\ raw.condition \in AlertCondition
    /\ Has(raw, "overbought_threshold") => ThresholdOk(raw.overbought_threshold)
    /\ Has(raw, "oversold_threshold") => ThresholdOk(raw.oversold_threshold)
    /\ Has(raw, "custom_threshold") => ThresholdOk(raw.custom_threshold)
    /\ Has(raw, "custom_operator") => MaxLengthOk(raw.custom_operator, OperatorMaxLen)

\* Mutant of AlertSettingCreate: the defaults of the two thresholds swapped.
AlertSettingCreateSwapped(raw) ==
    [user_id              |-> raw.user_id,
     name                 |-> raw.name,
     condition            |-> raw.condition,
     overbought_threshold |-> Get(raw, "overbought_threshold", OversoldDefault),
     oversold_threshold   |-> Get(raw, "oversold_threshold", OverboughtDefault),
     custom_threshold     |-> IF Has(raw, "custom_threshold")
                              THEN Some(raw.custom_threshold) ELSE None,
     custom_operator      |-> IF Has(raw, "custom_operator")
                              THEN Some(raw.custom_operator) ELSE None,
     applies_to_all_pairs |-> Get(raw, "applies_to_all_pairs", AppliesToAllPairsDefault),
     coin_pair_filters    |-> Get(raw, "coin_pair_filters", CoinPairFiltersDefault)]

AlertSettingCreate(raw) ==
    [user_id              |-> raw.user_id,
     name                 |-> raw.name,
     condition            |-> raw.condition,
     overbought_threshold |-> Get(raw, "overbought_threshold", OverboughtDefault),
     oversold_threshold   |-> Get(raw, "oversold_threshold", OversoldDefault),
     custom_threshold     |-> IF Has(raw, "custom_threshold")
                              THEN Some(raw.custom_threshold) ELSE None,
     custom_operator      |-> IF Has(raw, "custom_operator")
                              THEN Some(raw.custom_operator) ELSE None,
     applies_to_all_pairs |-> Get(raw, "applies_to_all_pairs", AppliesToAllPairsDefault),
     coin_pair_filters    |-> Get(raw, "coin_pair_filters", CoinPairFiltersDefault)]

\* AlertSetting(**data): is_enabled is not part of the create shape.
AlertSetting(data, id, t) ==
    [id                   |-> id,
     user_id              |-> data.user_id,
     name                 |-> data.name,
     condition            |-> data.condition,
     overbought_threshold |-> data.overbought_threshold,
     oversold_threshold   |-> data.oversold_threshold,
     custom_threshold     |-> data.custom_threshold,
     custom_operator      |-> data.custom_operator,
     is_enabled           |-> Get(data, "is_enabled", IsEnabledDefault),
     applies_to_all_pairs |-> data.applies_to_all_pairs,
     coin_pair_filters    |-> data.coin_pair_filters,
     created_at           |-> t,
     updated_at           |-> t]

AlertSettingUpdateValid(raw) ==
    /\ Has(raw, "name") => MaxLengthOk(raw.name, AlertNameMaxLen)
    /\ Has(raw, "condition") => raw.condition \in AlertCondition
    /\ Has(raw, "overbought_threshold") => ThresholdOk(raw.overbought_threshold)
    /\ Has(raw, "oversold_threshold") => ThresholdOk(raw.oversold_threshold)
    /\ Has(raw, "custom_threshold") => ThresholdOk(raw.custom_threshold)
    /\ Has(raw, "custom_operator") => MaxLengthOk(raw.custom_operator, OperatorMaxLen)

AlertSettingUpdateFields ==
    {"name", "condition", "overbought_threshold", "oversold_threshold",
     "custom_threshold", "custom_operator", "is_enabled", "applies_to_all_pairs",
     "coin_pair_filters"}

AlertSettingUpdate(raw) ==
    [f \in AlertSettingUpdateFields |-> IF Has(raw, f) THEN Some(raw[f]) ELSE None]

\* The three NUMERIC(5, 2) columns of a row as the table stores them: the rows
\* that may result, or None for a numeric overflow.
AlertSettingStored(row) ==
    { IF IsNone(ob) \/ IsNone(os) \/ IsNone(ct) THEN None
      ELSE Some([row EXCEPT !.overbought_threshold = ob[1],
                            !.oversold_threshold = os[1],
                            !.custom_threshold = ct[1]]) :
      ob \in NumericColumn(row.overbought_threshold, ThresholdMaxDigits,
                           ThresholdDecimalPlaces),
      os \in NumericColumn(row.oversold_threshold, ThresholdMaxDigits,
                           ThresholdDecimalPlaces),
      ct \in IF IsNone(row.custom_threshold) THEN {Some(None)}
             ELSE { IF IsNone(c) THEN None ELSE Some(c) :
                    c \in NumericColumn(row.custom_threshold[1], ThresholdMaxDigits,
                                        ThresholdDecimalPlaces) } }

CreateAlertSetting(raw) ==
    /\ IF ~AlertSettingCreateValid(raw)
       THEN /\ last' = Outcome("AlertSettingCreate", raw, "validation_error", 0)
            /\ UNCHANGED <<alert_settings, now>>
       ELSE LET row == AlertSetting(AlertSettingCreate(raw), Len(alert_settings) + 1, now)
            IN  IF ~ForeignKeyOk(users, row.user_id)
                THEN /\ last' = Outcome("AlertSettingCreate", raw, "foreign_key_violation", 0)
                     /\ UNCHANGED <<alert_settings, now>>
                ELSE \E stored \in AlertSettingStored(row) :
                     IF IsNone(stored)
                     THEN /\ last' = Outcome("AlertSettingCreate", raw, "numeric_overflow", 0)
                          /\ UNCHANGED <<alert_settings, now>>
                     ELSE /\ now < MaxTime
                          /\ alert_settings' = Append(alert_settings, stored[1])
                          /\ now' = now + 1
                          /\ last' = Outcome("AlertSettingCreate", raw, "ok", row.id)
    /\ UNCHANGED <<coin_pairs, users, rsi_data, user_coin_preferences,
                   rsi_notifications, dashboard_config, requests>>

UpdateAlertSetting(id, raw) ==
    /\ IF ~AlertSettingUpdateValid(raw)
       THEN /\ last' = Outcome("AlertSettingUpdate", raw, "validation_error", id)
            /\ UNCHANGED alert_settings
       ELSE IF id \notin DOMAIN alert_settings
       THEN /\ last' = Outcome("AlertSettingUpdate", raw, "not_found", id)
            /\ UNCHANGED alert_settings
       ELSE \E stored \in AlertSettingStored(
                    ApplyUpdate(alert_settings[id], AlertSettingUpdate(raw),
                                {"custom_threshold", "custom_operator"})) :
            IF IsNone(stored)
            THEN /\ last' = Outcome("AlertSettingUpdate", raw, "numeric_overflow", id)
                 /\ UNCHANGED alert_settings
            ELSE /\ alert_settings' = [alert_settings EXCEPT ![id] = stored[1]]
                 /\ last' = Outcome("AlertSettingUpdate", raw, "ok", id)
    /\ UNCHANGED <<coin_pairs, users, rsi_data, user_coin_preferences,
                   rsi_notifications, dashboard_config, requests, now>>

\* --------------------------------------------------- rsi_notifications

TitleMaxLen == 200
MessageMaxLen == 1000
StatusDefault == "pending"

\* NotificationCreate(**raw): rsi_value and price_at_alert are declared bare.
NotificationCreateValid(raw) ==
    /\ {"user_id", "coin_pair_id", "alert_setting_id", "title", "message",
        "rsi_value", "price_at_alert"} \subseteq DOMAIN raw
    /\ MaxLengthOk(raw.title, TitleMaxLen)
    /\ MaxLengthOk(raw.message, MessageMaxLen)

NotificationCreate(raw) ==
    [user_id          |-> raw.user_id,
     coin_pair_id     |-> raw.coin_pair_id,
     alert_setting_id |-> raw.alert_setting_id,
     title            |-> raw.title,
     message          |-> raw.message,
     rsi_value        |-> raw.rsi_value,
     price_at_alert   |-> raw.price_at_alert]

\* RSINotification(**data): status, sent_at and dismissed_at take the table's
\* defaults.
RSINotification(data, id, t) ==
    [id               |-> id,
     user_id          |-> data.user_id,
     coin_pair_id     |-> data.coin_pair_id,
     alert_setting_id |-> data.alert_setting_id,
     title            |-> data.title,
     message          |-> data.message,
     rsi_value        |-> data.rsi_value,
     price_at_alert   |-> data.price_at_alert,
     status           |-> Get(data, "status", StatusDefault),
     created_at       |-> t,
     sent_at          |-> None,
     dismissed_at     |-> None]

CreateNotification(raw) ==
    /\ IF ~NotificationCreateValid(raw)
       THEN /\ last' = Outcome("NotificationCreate", raw, "validation_error", 0)
            /\ UNCHANGED <<rsi_notifications, now>>
       ELSE LET data == NotificationCreate(raw) IN
            IF ~(/\ ForeignKeyOk(users, data.user_id)
                 /\ ForeignKeyOk(coin_pairs, data.coin_pair_id)
                 /\ ForeignKeyOk(alert_settings, data.alert_setting_id))
            THEN /\ last' = Outcome("NotificationCreate", raw, "foreign_key_violation", 0)
                 /\ UNCHANGED <<rsi_notifications, now>>
            ELSE \E rsi \in NumericColumn(data.rsi_value, RSIMaxDigits, RSIDecimalPlaces),
                    price \in NumericColumn(data.price_at_alert, PriceMaxDigits,
                                            PriceDecimalPlaces) :
                 IF IsNone(rsi) \/ IsNone(price)
                 THEN /\ last' = Outcome("NotificationCreate", raw, "numeric_overflow", 0)
                      /\ UNCHANGED <<rsi_notifications, now>>
                 ELSE LET row == RSINotification([data EXCEPT !.rsi_value = rsi[1],
                                                              !.price_at_alert = price[1]],
                                                 Len(rsi_notifications) + 1, now)
                      IN  /\ now < MaxTime
                          /\ rsi_notifications' = Append(rsi_notifications, row)
                          /\ now' = now + 1
                          /\ last' = Outcome("NotificationCreate", raw, "ok", row.id)
    /\ UNCHANGED <<coin_pairs, users, rsi_data, user_coin_preferences, alert_settings,
                   dashboard_config, requests>>

\* The status changes of a stored notification: a pending notification is
\* delivered (sent, with sent_at) or dismissed (dismissed, with dismissed_at).
SentNotification(row, t) == [row EXCEPT !.status = "sent", !.sent_at = Some(t)]
\* Mutant of DismissedNotification: the dismissal also rewrites the message.
DismissedNotificationRewritten(row, t) ==
    [row EXCEPT !.status = "dismissed", !.dismissed_at = Some(t),
                !.message = Str("dismissed", 9)]
DismissedNotification(row, t) ==
    [row EXCEPT !.status = "dismissed", !.dismissed_at = Some(t)]
\* Mutant of MayLeave: a notification of any status may be sent or dismissed.
MayLeaveAny(status) == TRUE
MayLeave(status) == status = "pending"

MarkNotificationSent(id) ==
    /\ IF id \notin DOMAIN rsi_notifications
       THEN /\ last' = Outcome("NotificationSend", NoInput, "not_found", id)
            /\ UNCHANGED rsi_notifications
       ELSE IF ~MayLeave(rsi_notifications[id].status)
       THEN /\ last' = Outcome("NotificationSend", NoInput, "invalid_transition", id)
            /\ UNCHANGED rsi_notifications
       ELSE /\ rsi_notifications' =
                 [rsi_notifications EXCEPT ![id] = SentNotification(@, now)]
            /\ last' = Outcome("NotificationSend", NoInput, "ok", id)
    /\ UNCHANGED <<coin_pairs, users, rsi_data, user_coin_preferences, alert_settings,
                   dashboard_config, requests, now>>

DismissNotification(id) ==
    /\ IF id \notin DOMAIN rsi_notifications
       THEN /\ last' = Outcome("NotificationDismiss", NoInput, "not_found", id)
            /\ UNCHANGED rsi_notifications
       ELSE IF ~MayLeave(rsi_notifications[id].status)
       THEN /\ last' = Outcome("NotificationDismiss", NoInput, "invalid_transition", id)
            /\ UNCHANGED rsi_notifications
       ELSE /\ rsi_notifications' =
                 [rsi_notifications EXCEPT ![id] = DismissedNotification(@, now)]
            /\ last' = Outcome("NotificationDismiss", NoInput, "ok", id)
    /\ UNCHANGED <<coin_pairs, users, rsi_data, user_coin_preferences, alert_settings,
                   dashboard_config, requests, now>>

\* ----------------------------------------------------- dashboard_config

RefreshIntervalDefault == 5
DefaultRsiPeriodDefault == 14
MaxHistoricalRecordsDefault == 1000
GridColumnsDefault == 4
RateLimitDefault == 1200
TimeoutDefault == 10
DisplaySettingsDefault ==
    [show_volume |-> TRUE, show_price |-> TRUE, show_timestamp |-> TRUE,
     theme |-> "light", grid_columns |-> GridColumnsDefault]
ApiSettingsDefault ==
    [base_url |-> "https://fapi.binance.com", rate_limit |-> RateLimitDefault,
     timeout |-> TimeoutDefault]

\* DashboardConfig(): every field takes its declared default.
DashboardConfig(data, id, t) ==
    [id                     |-> id,
     refresh_interval       |-> Get(data, "refresh_interval", RefreshIntervalDefault),
     default_rsi_period     |-> Get(data, "default_rsi_period", DefaultRsiPeriodDefault),
     max_historical_records |-> Get(data, "max_historical_records",
                                    MaxHistoricalRecordsDefault),
     display_settings       |-> Get(data, "display_settings", DisplaySettingsDefault),
     api_settings           |-> Get(data, "api_settings", ApiSettingsDefault),
     created_at             |-> t,
     updated_at             |-> t]

DashboardConfigUpdateFields ==
    {"refresh_interval", "default_rsi_period", "max_historical_records",
     "display_settings", "api_settings"}

DashboardConfigUpdate(raw) ==
    [f \in DashboardConfigUpdateFields |-> IF Has(raw, f) THEN Some(raw[f]) ELSE None]

\* The one configuration row is stored with the declared defaults.
CreateDashboardConfig ==
    /\ dashboard_config = <<>>
    /\ now < MaxTime
    /\ dashboard_config' = <<DashboardConfig(NoInput, 1, now)>>
    /\ now' = now + 1
    /\ last' = Outcome("DashboardConfigCreate", NoInput, "ok", 1)
    /\ UNCHANGED <<coin_pairs, users, rsi_data, user_coin_preferences, alert_settings,
                   rsi_notifications, requests>>

UpdateDashboardConfig(id, raw) ==
    /\ IF id \notin DOMAIN dashboard_config
       THEN /\ last' = Outcome("DashboardConfigUpdate", raw, "not_found", id)
            /\ UNCHANGED dashboard_config
       ELSE /\ dashboard_config' =
                 [dashboard_config EXCEPT
                    ![id] = ApplyUpdate(@, DashboardConfigUpdate(raw), {})]
            /\ last' = Outcome("DashboardConfigUpdate", raw, "ok", id)
    /\ UNCHANGED <<coin_pairs, users, rsi_data, user_coin_preferences, alert_settings,
                   rsi_notifications, requests, now>>

\* -------------------------------------------------------------- inputs

BTCUSDT == Str("BTCUSDT", 7)
ETHUSDT == Str("ETHUSDT", 7)
Symbol50 == Str("S50", SymbolMaxLen)
Symbol51 == Str("S51", SymbolMaxLen + 1)
BTC == Str("BTC", 3)
USDT == Str("USDT", 4)
Asset21 == Str("A21", AssetMaxLen + 1)

\* The raw inputs made of a full input of `full` with any of the `optional`
\* fields left out.
Raws(full, optional) ==
    { Restrict(r, DOMAIN r \ O) : r \in full, O \in SUBSET optional }

\* The raw inputs made of a full input of `full` cut to one of the field sets
\* `supplied`.
Supplying(full, supplied) ==
    { Restrict(r, D) : r \in full, D \in supplied }

\* ------------------------------------------------------- specifications

Init ==
    /\ coin_pairs = <<>>
    /\ users = <<>>
    /\ rsi_data = <<>>
    /\ user_coin_preferences = <<>>
    /\ alert_settings = <<>>
    /\ rsi_notifications = <<>>
    /\ dashboard_config = <<>>
    /\ requests = <<>>
    /\ now = 0
    /\ last = Outcome("none", NoInput, "none", 0)

\* Callers racing to create coin pairs.
RaceInputs ==
    Raws([symbol : {BTCUSDT, ETHUSDT, Symbol51}, base_asset : {BTC},
          quote_asset : {USDT}, is_active : {FALSE}], {"is_active"})

NextRace ==
    \/ \E raw \in RaceInputs : IssueCoinPairCreate(raw)
    \/ \E i \in 1..MaxRequests : InsertCoinPair(i)

SpecRace == Init /\ [][NextRace]_vars

\* The catalogue: coin pairs and users created and updated.
Alice == Str("alice", 5)
Bob == Str("bob", 3)
AliceMail == Str("alice@example.com", 17)
BobMail == Str("bob@example.com", 15)

CatalogPairCreates ==
    Raws([symbol : {BTCUSDT, ETHUSDT}, base_asset : {BTC}, quote_asset : {USDT},
          is_active : {FALSE}], {"is_active"})
CatalogPairUpdates ==
    Raws([symbol : {BTCUSDT, ETHUSDT}, is_active : {FALSE}], {"symbol", "is_active"})
CatalogUserCreates ==
    [username : {Alice, Bob}, email : {AliceMail, BobMail}]
CatalogUserUpdates ==
    Raws([username : {Alice, Bob}, email : {AliceMail, BobMail}], {"username", "email"})

NextCatalog ==
    \/ \E raw \in CatalogPairCreates : CreateCoinPair(raw)
    \/ \E id \in 1..(Len(coin_pairs) + 1), raw \in CatalogPairUpdates :
            UpdateCoinPair(id, raw)
    \/ \E raw \in CatalogUserCreates : CreateUser(raw)
    \/ \E id \in 1..(Len(users) + 1), raw \in CatalogUserUpdates : UpdateUser(id, raw)

SpecCatalog == Init /\ [][NextCatalog]_vars

\* Rows created with and without their defaulted fields.
OneUser == [username : {Alice}, email : {AliceMail}]
OnePair == [symbol : {BTCUSDT}, base_asset : {BTC}, quote_asset : {USDT}]

DefaultsPairCreates ==
    Raws([symbol : {BTCUSDT}, base_asset : {BTC}, quote_asset : {USDT},
          is_active : {TRUE, FALSE}], {"is_active"})
DefaultsRSICreates ==
    Raws([coin_pair_id : {1}, rsi_value : {Dec(705, 1)}, price : {Dec(1, 0)},
          volume : {Dec(15, 1)}, period : {21}], {"volume", "period"})
DefaultsAlertCreates ==
    Raws([user_id : {1}, name : {Str("rsi alert", 9)}, condition : {"custom"},
          overbought_threshold : {Dec(8000, 2)}, oversold_threshold : {Dec(205, 1)},
          custom_threshold : {Dec(5550, 2)}, custom_operator : {Str(">=", 2)},
          applies_to_all_pairs : {FALSE}],
         {"overbought_threshold", "oversold_threshold", "applies_to_all_pairs"})

NextDefaults ==
    \/ \E raw \in DefaultsPairCreates : CreateCoinPair(raw)
    \/ \E raw \in OneUser : CreateUser(raw)
    \/ \E raw \in DefaultsRSICreates : CreateRSIData(raw)
    \/ \E raw \in DefaultsAlertCreates : CreateAlertSetting(raw)

SpecDefaults == Init /\ [][NextDefaults]_vars

\* Indicator samples and notifications written with assorted decimals.
DataRSIValues ==
    {Dec(705, 1), Dec(0, 0), Dec(100, 0), Dec(150, 0), Dec(-1, 0),
     Dec(112345, 5), Dec(1234512345, 5)}

DataRSICreates ==
    [coin_pair_id : {1}, rsi_value : DataRSIValues, price : {Dec(1, 0)}]
    \cup [coin_pair_id : {1}, rsi_value : {Dec(705, 1)}, price : {Dec(1123456789, 9)}]
DataAlertCreates ==
    Raws([user_id : {1}, name : {Str("rsi alert", 9)}, condition : {"overbought"},
          overbought_threshold : {Dec(8000, 2), Dec(80123, 3), Dec(100000, 2)}],
         {"overbought_threshold"})
DataNotificationCreates ==
    [user_id : {1}, coin_pair_id : {1}, alert_setting_id : {1},
     title : {Str("RSI alert", 9)}, message : {Str("BTCUSDT is overbought", 21)},
     rsi_value : {Dec(705, 1), Dec(150, 0), Dec(112345, 5)}, price_at_alert : {Dec(1, 0)}]

NextData ==
    \/ \E raw \in OnePair : CreateCoinPair(raw)
    \/ \E raw \in OneUser : CreateUser(raw)
    \/ \E raw \in DataRSICreates : CreateRSIData(raw)
    \/ \E raw \in DataAlertCreates : CreateAlertSetting(raw)
    \/ \E raw \in DataNotificationCreates : CreateNotification(raw)

SpecData == Init /\ [][NextData]_vars

\* Rows created with foreign keys that name a row or none.
RefIds == 1..2
RefsPairCreates ==
    [symbol : {BTCUSDT, ETHUSDT}, base_asset : {BTC}, quote_asset : {USDT}]
RefsUserCreates == {[username |-> Alice, email |-> AliceMail],
                    [username |-> Bob, email |-> BobMail]}
RefsRSICreates == [coin_pair_id : RefIds, rsi_value : {Dec(705, 1)}, price : {Dec(1, 0)}]
RefsPreferenceCreates == [user_id : RefIds, coin_pair_id : RefIds]
RefsAlertCreates ==
    [user_id : RefIds, name : {Str("rsi alert", 9)}, condition : {"oversold"}]
RefsNotificationCreates ==
    [user_id : RefIds, coin_pair_id : RefIds, alert_setting_id : RefIds,
     title : {Str("RSI alert", 9)}, message : {Str("BTCUSDT is oversold", 19)},
     rsi_value : {Dec(255, 1)}, price_at_alert : {Dec(1, 0)}]

NextRefs ==
    \/ \E raw \in RefsPairCreates : CreateCoinPair(raw)
    \/ \E raw \in RefsUserCreates : CreateUser(raw)
    \/ \E raw \in RefsRSICreates : CreateRSIData(raw)
    \/ \E raw \in RefsPreferenceCreates : CreateUserCoinPreference(raw)
    \/ \E raw \in RefsAlertCreates : CreateAlertSetting(raw)
    \/ \E raw \in RefsNotificationCreates : CreateNotification(raw)

SpecRefs == Init /\ [][NextRefs]_vars

\* Notifications created, delivered and dismissed.
NotifAlertCreates == [user_id : {1}, name : {Str("rsi alert", 9)}, condition : {"oversold"}]
NotifCreates ==
    [user_id : {1}, coin_pair_id : {1}, alert_setting_id : {1},
     title : {Str("RSI alert", 9), Str("RSI warning", 11)},
     message : {Str("BTCUSDT is oversold", 19)},
     rsi_value : {Dec(255, 1), Dec(12, 0)}, price_at_alert : {Dec(1, 0), Dec(25, 1)}]

NextNotif ==
    \/ \E raw \in OnePair : CreateCoinPair(raw)
    \/ \E raw \in OneUser : CreateUser(raw)
    \/ \E raw \in NotifAlertCreates : CreateAlertSetting(raw)
    \/ \E raw \in NotifCreates : CreateNotification(raw)
    \/ \E id \in 1..(Len(rsi_notifications) + 1) : MarkNotificationSent(id)
    \/ \E id \in 1..(Len(rsi_notifications) + 1) : DismissNotification(id)

SpecNotif == Init /\ [][NextNotif]_vars

\* Inputs at and past the declared limits.
Username50 == Str("U50", UsernameMaxLen)
Username51 == Str("U51", UsernameMaxLen + 1)
Email255 == Str("E255", EmailMaxLen)
Email256 == Str("E256", EmailMaxLen + 1)
Name100 == Str("N100", AlertNameMaxLen)
Name101 == Str("N101", AlertNameMaxLen + 1)
Operator10 == Str("O10", OperatorMaxLen)
Operator11 == Str("O11", OperatorMaxLen + 1)
Title200 == Str("T200", TitleMaxLen)
Title201 == Str("T201", TitleMaxLen + 1)
Message1000 == Str("M1000", MessageMaxLen)
Message1001 == Str("M1001", MessageMaxLen + 1)

ValidationPairCreates ==
    [symbol : {Symbol50, Symbol51}, base_asset : {BTC, Asset21}, quote_asset : {USDT}]
ValidationPairUpdates ==
    {[symbol |-> Symbol51], [symbol |-> BTCUSDT], [quote_asset |-> Asset21]}
ValidationUserCreates ==
    {[username |-> Alice, email |-> AliceMail],
     [username |-> Username51, email |-> AliceMail],
     [username |-> Alice, email |-> Email256]}
ValidationUserUpdates ==
    {[username |-> Username50], [username |-> Username51], [email |-> Email256]}
ValidationAlertCreates ==
    [user_id : {1}, name : {Name100, Name101}, condition : {"overbought", "sideways"}]
    \cup {[user_id |-> 1, name |-> Name100, condition |-> "custom",
           custom_operator |-> Operator11]}
ValidationAlertUpdates ==
    {[name |-> Name101], [condition |-> "sideways"], [condition |-> "oversold"],
     [custom_operator |-> Operator11]}
ValidationNotificationCreates ==
    [user_id : {1}, coin_pair_id : {1}, alert_setting_id : {1},
     title : {Title200, Title201}, message : {Message1000, Message1001},
     rsi_value : {Dec(705, 1)}, price_at_alert : {Dec(1, 0)}]

NextValidation ==
    \/ \E raw \in ValidationPairCreates : CreateCoinPair(raw)
    \/ \E id \in 1..(Len(coin_pairs) + 1), raw \in ValidationPairUpdates :
            UpdateCoinPair(id, raw)
    \/ \E raw \in ValidationUserCreates : CreateUser(raw)
    \/ \E id \in 1..(Len(users) + 1), raw \in ValidationUserUpdates : UpdateUser(id, raw)
    \/ \E raw \in ValidationAlertCreates : CreateAlertSetting(raw)
    \/ \E id \in 1..(Len(alert_settings) + 1), raw \in ValidationAlertUpdates :
            UpdateAlertSetting(id, raw)
    \/ \E raw \in ValidationNotificationCreates : CreateNotification(raw)

SpecValidation == Init /\ [][NextValidation]_vars

\* Stored rows updated with some, all or none of the fields of their update
\* shape. The store starts with one row of each table, as the creations leave
\* them.
InitUpdates ==
    /\ coin_pairs = <<CoinPair(CoinPairCreate(
            [symbol |-> BTCUSDT, base_asset |-> BTC, quote_asset |-> USDT]), 1, 0)>>
    /\ users = <<User(UserCreate([username |-> Alice, email |-> AliceMail]), 1, 1)>>
    /\ rsi_data = <<>>
    /\ user_coin_preferences = <<UserCoinPreference(UserCoinPreferenceCreate(
            [user_id |-> 1, coin_pair_id |-> 1]), 1, 2)>>
    /\ alert_settings = <<AlertSetting(AlertSettingCreate(
            [user_id |-> 1, name |-> Str("rsi alert", 9), condition |-> "overbought",
             overbought_threshold |-> Dec(8000, 2)]), 1, 3)>>
    /\ rsi_notifications = <<>>
    /\ dashboard_config = <<DashboardConfig(NoInput, 1, 4)>>
    /\ requests = <<>>
    /\ now = 5
    /\ last = Outcome("none", NoInput, "none", 0)

UpdatesPairUpdates ==
    Supplying([symbol : {ETHUSDT}, base_asset : {Str("ETH", 3)},
               quote_asset : {Str("BUSD", 4)}, is_active : {FALSE}],
              {{}, {"is_active"}, {"symbol", "base_asset", "quote_asset", "is_active"}})
UpdatesUserUpdates ==
    Supplying([username : {Bob}, email : {BobMail}, is_active : {FALSE}],
              {{}, {"username"}, {"email", "is_active"}})
UpdatesPreferenceUpdates ==
    Supplying([is_selected : {FALSE}, display_order : {3}],
              {{}, {"is_selected"}, {"display_order"}})
UpdatesAlertUpdates ==
    Supplying([name : {Str("renamed", 7)}, condition : {"custom"},
               overbought_threshold : {Dec(7550, 2)}, oversold_threshold : {Dec(2550, 2)},
               custom_threshold : {Dec(5550, 2)}, custom_operator : {Str(">=", 2)},
               is_enabled : {FALSE}, applies_to_all_pairs : {FALSE},
               coin_pair_filters : {<<"BTCUSDT">>}],
              {{}, {"is_enabled"},
               {"condition", "custom_threshold", "custom_operator"},
               {"name", "oversold_threshold", "applies_to_all_pairs",
                "coin_pair_filters"}})
UpdatesConfigUpdates ==
    Supplying([refresh_interval : {10}, default_rsi_period : {21},
               max_historical_records : {500}, display_settings : {[theme |-> "dark"]},
               api_settings : {[timeout |-> 30]}],
              {{}, {"refresh_interval"},
               {"default_rsi_period", "max_historical_records", "display_settings",
                "api_settings"}})

NextUpdates ==
    \/ \E id \in 1..(Len(coin_pairs) + 1), raw \in UpdatesPairUpdates :
            UpdateCoinPair(id, raw)
    \/ \E id \in 1..(Len(users) + 1), raw \in UpdatesUserUpdates : UpdateUser(id, raw)
    \/ \E id \in 1..(Len(user_coin_preferences) + 1), raw \in UpdatesPreferenceUpdates :
            UpdateUserCoinPreference(id, raw)
    \/ \E id \in 1..(Len(alert_settings) + 1), raw \in UpdatesAlertUpdates :
            UpdateAlertSetting(id, raw)
    \/ \E id \in 1..(Len(dashboard_config) + 1), raw \in UpdatesConfigUpdates :
            UpdateDashboardConfig(id, raw)

SpecUpdates == InitUpdates /\ [][NextUpdates]_vars

\* ---------------------------------------------------------- properties

StatusOf(rows, id) == rows[id].status

\* C1: the status of a stored notification changes only from pending to sent
\* or from pending to dismissed; a sent or dismissed notification never turns
\* pending again.
C1_StatusMonotonic ==
    [][\A id \in DOMAIN rsi_notifications :
          StatusOf(rsi_notifications', id) # StatusOf(rsi_notifications, id)
          => /\ StatusOf(rsi_notifications, id) = "pending"
             /\ StatusOf(rsi_notifications', id) \in {"sent", "dismissed"}]_vars

\* A sent notification that a later dismissal tried to change.
C1_Witness ==
    /\ last.op = "NotificationDismiss"
    /\ last.result = "invalid_transition"
    /\ last.id \in DOMAIN rsi_notifications
    /\ rsi_notifications[last.id].status = "sent"
    /\ ~IsNone(rsi_notifications[last.id].sent_at)

Settled(r) == r.status # "validated"
CarriesSymbol(r, s) == Has(r.raw, "symbol") /\ r.raw.symbol = s
RequestedSymbols == { requests[i].raw.symbol : i \in DOMAIN requests }
RequestsFor(s) == { i \in DOMAIN requests : CarriesSymbol(requests[i], s) }
RowsWith(s) == { i \in DOMAIN coin_pairs : coin_pairs[i].symbol = s }
OneWinsOneLoses(s) ==
    /\ \E i, j \in RequestsFor(s) :
          /\ i # j
          /\ requests[i].status = "ok"
          /\ requests[j].status = "unique_violation"
    /\ Cardinality(RowsWith(s)) = 1
WithinLimits(raw) ==
    /\ raw.symbol.len <= SymbolMaxLen
    /\ raw.base_asset.len <= AssetMaxLen
    /\ raw.quote_asset.len <= AssetMaxLen

C3_UniqueKeys ==
    /\ \A i, j \in DOMAIN coin_pairs : i # j => coin_pairs[i].symbol # coin_pairs[j].symbol
    /\ \A i, j \in DOMAIN users : i # j => users[i].username # users[j].username
    /\ \A i, j \in DOMAIN users : i # j => users[i].email # users[j].email

\* Two coin pairs and two users stored, and an update that would have given
\* one user the other's email refused.
C3_Witness ==
    /\ Len(coin_pairs) = 2
    /\ Len(users) = 2
    /\ last.op = "UserUpdate"
    /\ last.result = "unique_violation"
    /\ DOMAIN last.raw = {"email"}

Dangling(rows, raw, f) == Has(raw, f) /\ raw[f] \notin DOMAIN rows

\* C4: every foreign key of every stored row names a stored row, and a create
\* whose foreign key names no row is refused.
C4_ForeignKeys ==
    /\ \A i \in DOMAIN rsi_data : rsi_data[i].coin_pair_id \in DOMAIN coin_pairs
    /\ \A i \in DOMAIN user_coin_preferences :
          /\ user_coin_preferences[i].user_id \in DOMAIN users
          /\ user_coin_preferences[i].coin_pair_id \in DOMAIN coin_pairs
    /\ \A i \in DOMAIN alert_settings : alert_settings[i].user_id \in DOMAIN users
    /\ \A i \in DOMAIN rsi_notifications :
          /\ rsi_notifications[i].user_id \in DOMAIN users
          /\ rsi_notifications[i].coin_pair_id \in DOMAIN coin_pairs
          /\ rsi_notifications[i].alert_setting_id \in DOMAIN alert_settings
    /\ (/\ last.op \in {"RSIDataCreate", "UserCoinPreferenceCreate", "AlertSettingCreate",
                        "NotificationCreate"}
        /\ \/ Dangling(users, last.raw, "user_id")
           \/ Dangling(coin_pairs, last.raw, "coin_pair_id")
           \/ Dangling(alert_settings, last.raw, "alert_setting_id"))
       => last.result = "foreign_key_violation"

\* A notification stored with its three foreign keys, and a later create
\* naming a missing row refused.
C4_Witness ==
    /\ Len(rsi_notifications) = 1
    /\ last.result = "foreign_key_violation"
    /\ last.op = "UserCoinPreferenceCreate"

\* What an update of row o.id of a table may do to it: the table changes from
\* `old` to `new`.
Frame(old, new, o) ==
    /\ DOMAIN new = DOMAIN old
    /\ \A i \in DOMAIN old : i # o.id => new[i] = old[i]
    /\ o.id \in DOMAIN old =>
          \A f \in DOMAIN old[o.id] : ~Has(o.raw, f) => new[o.id][f] = old[o.id][f]
    /\ DOMAIN o.raw = {} => new = old

\* C5: an update changes only the fields its input supplied: every other field
\* of the row, every other row and every other table keep their values, and an
\* update that supplies no field changes nothing.
C5_UpdateFrame ==
    [][LET o == last' IN
       /\ o.op = "CoinPairUpdate" =>
             /\ Frame(coin_pairs, coin_pairs', o)
             /\ UNCHANGED <<users, rsi_data, user_coin_preferences, alert_settings,
                            rsi_notifications, dashboard_config>>
       /\ o.op = "UserUpdate" =>
             /\ Frame(users, users', o)
             /\ UNCHANGED <<coin_pairs, rsi_data, user_coin_preferences, alert_settings,
                            rsi_notifications, dashboard_config>>
       /\ o.op = "AlertSettingUpdate" =>
             /\ Frame(alert_settings, alert_settings', o)
             /\ UNCHANGED <<coin_pairs, users, rsi_data, user_coin_preferences,
                            rsi_notifications, dashboard_config>>
       /\ o.op = "UserCoinPreferenceUpdate" =>
             /\ Frame(user_coin_preferences, user_coin_preferences', o)
             /\ UNCHANGED <<coin_pairs, users, rsi_data, alert_settings,
                            rsi_notifications, dashboard_config>>
       /\ o.op = "DashboardConfigUpdate" =>
             /\ Frame(dashboard_config, dashboard_config', o)
             /\ UNCHANGED <<coin_pairs, users, rsi_data, user_coin_preferences,
                            alert_settings, rsi_notifications>>]_vars

\* An alert setting disabled by an update of is_enabled alone, after an update
\* of other fields: the threshold given at creation and the renamed name are
\* still there.
C5_Witness ==
    /\ last.op = "AlertSettingUpdate"
    /\ last.result = "ok"
    /\ DOMAIN last.raw = {"is_enabled"}
    /\ alert_settings[1].is_enabled = FALSE
    /\ alert_settings[1].overbought_threshold = Dec(8000, 2)
    /\ alert_settings[1].name = Str("renamed", 7)
    /\ alert_settings[1].custom_threshold = None

Created(op) == last.op = op /\ last.result = "ok"
Taken(row, f, default) == row[f] = (IF Has(last.raw, f) THEN last.raw[f] ELSE default)

\* C6: the row a create stores has, for each field with a declared default,
\* the default when the input omitted the field and the supplied value
\* otherwise: is_active true, period 14, volume 0, thresholds 70.00 and 30.00,
\* applies_to_all_pairs true.
C6_DefaultsOnCreate ==
    /\ Created("CoinPairCreate") => Taken(coin_pairs[last.id], "is_active", TRUE)
    /\ Created("RSIDataCreate") =>
          /\ Taken(rsi_data[last.id], "period", 14)
          /\ Taken(rsi_data[last.id], "volume", Dec(0, 0))
    /\ Created("AlertSettingCreate") =>
          /\ Taken(alert_settings[last.id], "overbought_threshold", Dec(7000, 2))
          /\ Taken(alert_settings[last.id], "oversold_threshold", Dec(3000, 2))
          /\ Taken(alert_settings[last.id], "applies_to_all_pairs", TRUE)
          /\ alert_settings[last.id].custom_threshold = Some(last.raw.custom_threshold)
          /\ alert_settings[last.id].custom_operator = Some(last.raw.custom_operator)

\* A custom alert created with custom_threshold 55.50 and custom_operator >=
\* and no thresholds: it is stored with 70.00 and 30.00 beside the custom
\* fields.
C6_Witness ==
    /\ Created("AlertSettingCreate")
    /\ DOMAIN last.raw = {"user_id", "name", "condition", "custom_threshold",
                          "custom_operator"}
    /\ last.raw.condition = "custom"
    /\ alert_settings[last.id].overbought_threshold = Dec(7000, 2)
    /\ alert_settings[last.id].oversold_threshold = Dec(3000, 2)
    /\ alert_settings[last.id].custom_threshold = Some(Dec(5550, 2))
    /\ alert_settings[last.id].custom_operator = Some(Str(">=", 2))
    /\ alert_settings[last.id].applies_to_all_pairs = TRUE

\* A Decimal with more digits after the point than s, or more digits than p.
Exceeds(raw, f, p, s) ==
    Has(raw, f) /\ (DecimalDecimals(raw[f]) > s \/ DecimalDigits(raw[f]) > p)

\* C7: a create whose input carries a decimal with more digits after the point
\* than the scale of its field, or more digits than its precision, is rejected:
\* 8 and 4 for an RSI value, 20 and 8 for price and volume, 5 and 2 for
\* thresholds.
C7_DecimalsRejected ==
    /\ (/\ last.op = "RSIDataCreate"
        /\ \/ Exceeds(last.raw, "rsi_value", 8, 4)
           \/ Exceeds(last.raw, "price", 20, 8)
           \/ Exceeds(last.raw, "volume", 20, 8))
       => last.result # "ok"
    /\ (/\ last.op = "NotificationCreate"
        /\ \/ Exceeds(last.raw, "rsi_value", 8, 4)
           \/ Exceeds(last.raw, "price_at_alert", 20, 8))
       => last.result # "ok"
    /\ (/\ last.op = "AlertSettingCreate"
        /\ \/ Exceeds(last.raw, "overbought_threshold", 5, 2)
           \/ Exceeds(last.raw, "oversold_threshold", 5, 2)
           \/ Exceeds(last.raw, "custom_threshold", 5, 2))
       => last.result # "ok"

OverLong(raw, f, n) == Has(raw, f) /\ raw[f].len > n
BadInput(o) ==
    \/ /\ o.op \in {"CoinPairCreate", "CoinPairUpdate"}
       /\ \/ OverLong(o.raw, "symbol", 50)
          \/ OverLong(o.raw, "base_asset", 20)
          \/ OverLong(o.raw, "quote_asset", 20)
    \/ /\ o.op \in {"UserCreate", "UserUpdate"}
       /\ OverLong(o.raw, "username", 50) \/ OverLong(o.raw, "email", 255)
    \/ /\ o.op \in {"AlertSettingCreate", "AlertSettingUpdate"}
       /\ \/ OverLong(o.raw, "name", 100)
          \/ OverLong(o.raw, "custom_operator", 10)
          \/ Has(o.raw, "condition")
             /\ o.raw.condition \notin {"overbought", "oversold", "custom"}
    \/ /\ o.op = "NotificationCreate"
       /\ OverLong(o.raw, "title", 200) \/ OverLong(o.raw, "message", 1000)

\* C8: a create or update whose input has a string longer than the declared
\* maximum of its field, or a condition that is no member of AlertCondition,
\* ends in a validation error and leaves every table as it was; an input whose
\* strings are at most the maximum, a 50-character symbol among them, passes
\* validation.
C8_ValidationErrors ==
    [][LET o == last' IN
       /\ BadInput(o) => o.result = "validation_error" /\ UNCHANGED tables
       /\ ~BadInput(o) => o.result # "validation_error"]_vars

\* A coin pair with a 50-character symbol is stored, and an update of it to a
\* 51-character symbol ended in a validation error.
C8_Witness ==
    /\ Len(coin_pairs) = 1
    /\ coin_pairs[1].symbol.len = 50
    /\ last.op = "CoinPairUpdate"
    /\ last.id = 1
    /\ Has(last.raw, "symbol")
    /\ last.raw.symbol.len = 51
    /\ last.result = "validation_error"

NotificationFrozen ==
    {"id", "user_id", "coin_pair_id", "alert_setting_id", "title", "message",
     "rsi_value", "price_at_alert", "created_at"}

\* C9: once a notification is stored, no operation changes its user_id,
\* coin_pair_id, alert_setting_id, title, message, rsi_value, price_at_alert or
\* created_at, and no operation removes it.
C9_NotificationFrame ==
    [][\A id \in DOMAIN rsi_notifications :
          /\ id \in DOMAIN rsi_notifications'
          /\ \A f \in NotificationFrozen :
                rsi_notifications'[id][f] = rsi_notifications[id][f]]_vars

\* A notification dismissed after its creation: status and dismissed_at
\* changed.
C9_Witness ==
    \E id \in DOMAIN rsi_notifications :
        /\ rsi_notifications[id].status = "dismissed"
        /\ ~IsNone(rsi_notifications[id].dismissed_at)
        /\ rsi_notifications[id].dismissed_at[1] > rsi_notifications[id].created_at
        /\ IsNone(rsi_notifications[id].sent_at)
        /\ last.op = "NotificationDismiss"

InRange(d) == d.coef >= 0 /\ d.coef <= 100 * Pow10(d.exp)

\* C10: the rsi_value of every stored RSIData row and of every stored
\* RSINotification row is at least 0 and at most 100.
C10_RSIInRange ==
    /\ \A i \in DOMAIN rsi_data : InRange(rsi_data[i].rsi_value)
    /\ \A i \in DOMAIN rsi_notifications : InRange(rsi_notifications[i].rsi_value)

=============================================================================
